---- MODULE Spec2Model ----
(***************************************************************************)
(* Peer identity derivation and persistence of bridge-nodes-rs:            *)
(*   src/src/utils/peer_id.rs  the library flows (home directory provider, *)
(*                             ~/.chaincraft/keypair.key, modes 0700/0600) *)
(*   src/src/main.rs           the command-line dispatch and the binary's  *)
(*                             own flows on ./keypair.key                  *)
(* Bytes are naturals below 256.  A file's content is a sequence of        *)
(* base64 characters: 0..63 are the symbols of the standard alphabet, 64   *)
(* is '=', anything larger is a character outside the alphabet.  Keys are  *)
(* scaled down from 32 bytes to SeedLen bytes; every length the encodings  *)
(* carry is computed from SeedLen.                                         *)
(***************************************************************************)
EXTENDS Integers, Sequences, FiniteSets, TLC

\* ------------------------------------------------------------- bounds
\* bytes of a secret key, of a public key and of a hash output (32 in the code)
SeedLen == 2
\* longest seed phrase, in bytes
MaxPhraseLen == 1
\* number of distinct outcomes of the random key generator
NumRandom == 2

\* ---------------------------------------------------------- constants
PATH_PERMISSIONS == 448
FILE_PERMISSIONS == 384
\* 0o777 and 0o666 under the usual umask 0o022
DefaultDirMode == 493
DefaultFileMode == 420

None == <<"None">>
Some(x) == <<"Some", x>>

PhraseBytes == {97, 98}
RECURSIVE SeqsUpTo(_, _)
SeqsUpTo(S, n) ==
    IF n = 0 THEN {<<>>}
    ELSE LET shorter == SeqsUpTo(S, n - 1)
         IN  shorter \cup {Append(s, x) : s \in {t \in shorter : Len(t) = n - 1}, x \in S}
Phrases == SeqsUpTo(PhraseBytes, MaxPhraseLen)

\* ------------------------------------------------------ pure functions
\* Sha3_256 over the phrase's bytes, scaled to SeedLen output bytes: a fixed
\* deterministic mix of every input byte.
RECURSIVE Absorb(_, _)
Absorb(h, bytes) ==
    IF bytes = <<>> THEN h
    ELSE Absorb((h * 31 + Head(bytes)) % 256, Tail(bytes))
Sha3_256(bytes) == [i \in 1..SeedLen |-> (Absorb(7, bytes) + 37 * i) % 256]

seed_phrase_to_bytes(seed_phrase) ==
    IF seed_phrase = None THEN None ELSE Some(Sha3_256(seed_phrase[2]))

\* the public key of a secret key (a fixed injective map on bytes)
Ed25519Public(secret) == [i \in 1..Len(secret) |-> (secret[i] * 5 + 3) % 256]
ed25519_from_bytes(seed) == [secret |-> seed, public |-> Ed25519Public(seed)]
RandomSecrets == {[i \in 1..SeedLen |-> (200 + 16 * r + i) % 256] : r \in 1..NumRandom}

\* the keypairs generate_keypair may return
generate_keypair_unseeded(secret_key_seed) ==
    {ed25519_from_bytes(s) : s \in RandomSecrets}
generate_keypair(secret_key_seed) ==
    IF secret_key_seed = None
    THEN {ed25519_from_bytes(s) : s \in RandomSecrets}
    ELSE {ed25519_from_bytes(secret_key_seed[2])}

\* PrivateKey { Type = 1 (Ed25519); Data = secret ++ public }
to_protobuf_encoding(keypair) ==
    <<8, 1, 18, Len(keypair.secret) + Len(keypair.public)>>
        \o keypair.secret \o keypair.public

\* [ok, keypair]: the message must be exactly the two fields, the data must
\* have the keypair's length and its public half must match its secret half
from_protobuf_encoding(bytes) ==
    LET n == 2 * SeedLen
        wellFormed == /\ Len(bytes) = 4 + n
                      /\ SubSeq(bytes, 1, 4) = <<8, 1, 18, n>>
        secret == SubSeq(bytes, 5, 4 + SeedLen)
        public == SubSeq(bytes, 5 + SeedLen, 4 + n)
    IN  IF wellFormed /\ public = Ed25519Public(secret)
        THEN [ok |-> TRUE, keypair |-> [secret |-> secret, public |-> public]]
        ELSE [ok |-> FALSE, keypair |-> [secret |-> <<>>, public |-> <<>>]]

Pad == 64
RECURSIVE Base64EncodeNoPad(_)
Base64EncodeNoPad(b) ==
    IF Len(b) = 0 THEN <<>>
    ELSE IF Len(b) = 1 THEN <<b[1] \div 4, (b[1] % 4) * 16>>
    ELSE IF Len(b) = 2
         THEN <<b[1] \div 4, (b[1] % 4) * 16 + b[2] \div 16, (b[2] % 16) * 4>>
    ELSE <<b[1] \div 4, (b[1] % 4) * 16 + b[2] \div 16,
           (b[2] % 16) * 4 + b[3] \div 64, b[3] % 64>>
         \o Base64EncodeNoPad(SubSeq(b, 4, Len(b)))
RECURSIVE Base64Encode(_)
Base64Encode(b) ==
    IF Len(b) = 0 THEN <<>>
    ELSE IF Len(b) = 1 THEN <<b[1] \div 4, (b[1] % 4) * 16, Pad, Pad>>
    ELSE IF Len(b) = 2
         THEN <<b[1] \div 4, (b[1] % 4) * 16 + b[2] \div 16, (b[2] % 16) * 4, Pad>>
    ELSE <<b[1] \div 4, (b[1] % 4) * 16 + b[2] \div 16,
           (b[2] % 16) * 4 + b[3] \div 64, b[3] % 64>>
         \o Base64Encode(SubSeq(b, 4, Len(b)))

\* STANDARD.decode: whole groups of four, '=' only as canonical padding of
\* the last group, no character outside the alphabet, no stray trailing bits
RECURSIVE Base64Decode(_)
Base64Decode(s) ==
    LET bad == [ok |-> FALSE, bytes |-> <<>>]
        sym(i) == s[i] \in 0..63
    IN  IF Len(s) = 0 THEN [ok |-> TRUE, bytes |-> <<>>]
        ELSE IF Len(s) < 4 THEN bad
        ELSE IF ~(sym(1) /\ sym(2)) THEN bad
        ELSE IF Len(s) = 4 /\ s[3] = Pad /\ s[4] = Pad
             THEN IF s[2] % 16 = 0
                  THEN [ok |-> TRUE, bytes |-> <<s[1] * 4 + s[2] \div 16>>]
                  ELSE bad
        ELSE IF Len(s) = 4 /\ sym(3) /\ s[4] = Pad
             THEN IF s[3] % 4 = 0
                  THEN [ok |-> TRUE,
                        bytes |-> <<s[1] * 4 + s[2] \div 16,
                                    (s[2] % 16) * 16 + s[3] \div 4>>]
                  ELSE bad
        ELSE IF ~(sym(3) /\ sym(4)) THEN bad
        ELSE LET rest == Base64Decode(SubSeq(s, 5, Len(s)))
             IN  IF rest.ok
                 THEN [ok |-> TRUE,
                       bytes |-> <<s[1] * 4 + s[2] \div 16,
                                   (s[2] % 16) * 16 + s[3] \div 4,
                                   (s[3] % 4) * 64 + s[4]>> \o rest.bytes]
                 ELSE bad

\* PeerId::from(public key): the identity multihash of the protobuf-encoded
\* public key (Ed25519 public keys are short enough to be inlined)
PeerId_from(public) ==
    LET pb == <<8, 1, 18, Len(public)>> \o public
    IN  <<0, Len(pb)>> \o pb

\* ------------------------------------------------------------- state
\* dir    ~/.chaincraft: [exists, mode]
\* files  the key file at each path: [exists, mode, content];
\*        "home" is ~/.chaincraft/keypair.key, "cwd" is ./keypair.key
\* proc   each process: its position, the flow it runs, its inputs and locals,
\*        its result, the steps it has applied so far in this run, and (prev)
\*        the result of the run before it when that run had the same inputs,
\*        and (start) the directory and key file as they were when it started
\* lastWriter  the process whose write_all on the home key file came last
VARIABLES dir, files, proc, lastWriter
vars == <<dir, files, proc, lastWriter>>

Procs == {1, 2}
Paths == {"home", "cwd"}

NoDir == [exists |-> FALSE, mode |-> 0]
AbsentFile == [exists |-> FALSE, mode |-> 0, content |-> <<>>]
NoKeypair == [secret |-> <<>>, public |-> <<>>]
NoArgs == [new_peer_id |-> FALSE, read_peer_id |-> FALSE, seed_phrase |-> None]
NoResult == [kind |-> "None", id |-> <<>>, cause |-> ""]
Ok(id) == [kind |-> "Ok", id |-> id, cause |-> ""]
Err(kind, cause) == [kind |-> kind, id |-> <<>>, cause |-> cause]
IdleProc ==
    [pc |-> "idle", flow |-> "none", args |-> NoArgs, seed_phrase |-> None,
     home |-> FALSE, seed |-> None, keypair |-> NoKeypair, buf |-> <<>>,
     result |-> NoResult, applied |-> <<>>, prev |-> NoResult,
     start |-> [dir |-> NoDir, file |-> AbsentFile]]

\* std::fs semantics the steps rely on (owner permission bits)
CanRead(mode) == (mode \div 256) % 2 = 1
CanWrite(mode) == (mode \div 128) % 2 = 1
CanExec(mode) == (mode \div 64) % 2 = 1
\* File::create: O_CREAT | O_TRUNC; an existing file keeps its mode
Truncated(f) ==
    IF f.exists THEN [f EXCEPT !.content = <<>>]
    ELSE [exists |-> TRUE, mode |-> DefaultFileMode, content |-> <<>>]
\* a write of buf at the descriptor's offset 0
WriteAt0_short(content, buf) ==
    SubSeq(buf, 1, Len(buf) - 1) \o SubSeq(content, Len(buf), Len(content))
WriteAt0(content, buf) == buf \o SubSeq(content, Len(buf) + 1, Len(content))

\* the order of the steps of each flow
save_keypair_swapped == <<"mkdir", "create", "write", "chmod_file", "chmod_dir">>
save_keypair_steps == <<"mkdir", "chmod_dir", "create", "write", "chmod_file">>
generate_peer_id_steps == <<"open", "read">>
main_save_keypair_steps == <<"create", "write">>
StepsOf(flow) ==
    CASE flow = "lib_new" -> save_keypair_steps \o generate_peer_id_steps
      [] flow = "lib_lookup" -> generate_peer_id_steps
      [] flow = "main_new" -> main_save_keypair_steps \o generate_peer_id_steps
      [] flow = "main_lookup" -> generate_peer_id_steps
      [] OTHER -> <<>>
PathOf(flow) == IF flow \in {"lib_new", "lib_lookup"} THEN "home" ELSE "cwd"
SaveSteps == {"mkdir", "chmod_dir", "create", "write", "chmod_file"}
Running == SaveSteps \cup {"open", "read"}

NextPc(flow, pc) ==
    LET s == StepsOf(flow)
        i == CHOOSE j \in 1..Len(s) : s[j] = pc
    IN  IF i = Len(s) THEN "done" ELSE s[i + 1]

\* a step of p succeeded
Advance(p, step) ==
    [proc[p] EXCEPT !.pc = NextPc(proc[p].flow, step),
                    !.applied = Append(proc[p].applied, step)]
\* the `?` of every step: the error ends the flow and is its result
PropagateDropped(p, err) ==
    IF proc[p].pc \in SaveSteps
    THEN [proc[p] EXCEPT !.pc = "open"]
    ELSE [proc[p] EXCEPT !.pc = "done", !.result = err]
Propagate(p, err) == [proc[p] EXCEPT !.pc = "done", !.result = err]

Fault(p) ==
    /\ proc' = [proc EXCEPT ![p] = Propagate(p, Err("IOError", "fault"))]
    /\ UNCHANGED <<dir, files, lastWriter>>
Denied(p, cause) ==
    /\ proc' = [proc EXCEPT ![p] = Propagate(p, Err("IOError", cause))]
    /\ UNCHANGED <<dir, files, lastWriter>>

Snapshot(path) == [dir |-> dir, file |-> files[path]]
CanStart(p) == proc[p].pc \in {"idle", "done", "crashed"}
SeedPhrases == {None} \cup {Some(ph) : ph \in Phrases}

\* ----------------------------------------------------------- the flows
\* save_keypair up to its first file-system step: the record to write and
\* the home directory lookup
save_keypair_no_home_check(p, keypair, home) ==
    [pc |-> "mkdir", result |-> NoResult,
     buf |-> Base64Encode(to_protobuf_encoding(keypair))]
save_keypair(p, keypair, home) ==
    IF home
    THEN [pc |-> "mkdir", result |-> NoResult,
          buf |-> Base64Encode(to_protobuf_encoding(keypair))]
    ELSE [pc |-> "done", result |-> Err("HomeDirectoryNotFound", ""),
          buf |-> Base64Encode(to_protobuf_encoding(keypair))]

\* generate_new_keypair_and_peer_id(seed_phrase, provider)
generate_new_keypair_and_peer_id(p) ==
    /\ CanStart(p)
    /\ \E seed_phrase \in SeedPhrases, home \in BOOLEAN :
         LET secret_key_seed == seed_phrase_to_bytes(seed_phrase)
         IN  \E keypair \in generate_keypair(secret_key_seed) :
               LET s == save_keypair(p, keypair, home)
               IN  proc' = [proc EXCEPT ![p] =
                       [IdleProc EXCEPT !.pc = s.pc, !.flow = "lib_new",
                                        !.seed_phrase = seed_phrase, !.home = home,
                                        !.seed = secret_key_seed, !.keypair = keypair,
                                        !.buf = s.buf, !.result = s.result,
                                        !.start = Snapshot("home"),
                                        !.prev = IF proc[p].flow = "lib_new"
                                                    /\ proc[p].seed_phrase = seed_phrase
                                                    /\ proc[p].pc = "done"
                                                 THEN proc[p].result ELSE NoResult]]
    /\ UNCHANGED <<dir, files, lastWriter>>

\* generate_peer_id(provider), called on its own: the lookup flow
generate_peer_id(p) ==
    /\ CanStart(p)
    /\ \E home \in BOOLEAN :
         proc' = [proc EXCEPT ![p] =
             [IdleProc EXCEPT !.pc = IF home THEN "open" ELSE "done",
                              !.flow = "lib_lookup", !.home = home,
                              !.start = Snapshot("home"),
                              !.result = IF home THEN NoResult
                                         ELSE Err("HomeDirectoryNotFound", "")]]
    /\ UNCHANGED <<dir, files, lastWriter>>

\* main: the flow the flags select
Dispatch(args) ==
    IF args.new_peer_id /\ args.seed_phrase # None THEN "main_new"
    ELSE IF args.read_peer_id THEN "main_lookup"
    ELSE "usage"
main(p) ==
    /\ CanStart(p)
    /\ \E new_peer_id \in BOOLEAN, read_peer_id \in BOOLEAN, seed_phrase \in SeedPhrases :
         LET args == [new_peer_id |-> new_peer_id, read_peer_id |-> read_peer_id,
                      seed_phrase |-> seed_phrase]
             flow == Dispatch(args)
         IN  CASE flow = "main_new" ->
                    LET secret_key_seed == seed_phrase_to_bytes(seed_phrase)
                    IN  \E keypair \in generate_keypair(secret_key_seed) :
                          proc' = [proc EXCEPT ![p] =
                              [IdleProc EXCEPT !.pc = "create", !.flow = flow,
                                  !.args = args, !.seed_phrase = seed_phrase,
                                  !.start = Snapshot("cwd"),
                                  !.seed = secret_key_seed, !.keypair = keypair,
                                  !.buf = Base64Encode(to_protobuf_encoding(keypair))]]
               [] flow = "main_lookup" ->
                    proc' = [proc EXCEPT ![p] =
                        [IdleProc EXCEPT !.pc = "open", !.flow = flow, !.args = args,
                                         !.start = Snapshot("cwd")]]
               [] OTHER ->
                    proc' = [proc EXCEPT ![p] =
                        [IdleProc EXCEPT !.pc = "done", !.flow = flow, !.args = args,
                                         !.start = Snapshot("cwd"),
                                         !.result = Err("Usage", "")]]
    /\ UNCHANGED <<dir, files, lastWriter>>

\* create_dir_all(parent_dir)?
create_dir_all(p) ==
    /\ proc[p].pc = "mkdir"
    /\ \/ /\ dir' = IF dir.exists THEN dir
                    ELSE [exists |-> TRUE, mode |-> DefaultDirMode]
          /\ proc' = [proc EXCEPT ![p] = Advance(p, "mkdir")]
          /\ UNCHANGED <<files, lastWriter>>
       \/ Fault(p)

\* set_permissions(parent_dir, PATH_PERMISSIONS)?
set_permissions_dir(p) ==
    /\ proc[p].pc = "chmod_dir"
    /\ \/ /\ dir.exists
          /\ dir' = [dir EXCEPT !.mode = PATH_PERMISSIONS]
          /\ proc' = [proc EXCEPT ![p] = Advance(p, "chmod_dir")]
          /\ UNCHANGED <<files, lastWriter>>
       \/ /\ ~dir.exists
          /\ Denied(p, "ENOENT")
       \/ Fault(p)

\* whether File::create / File::open may reach the key file of this path
Reachable(path) == path = "cwd" \/ (dir.exists /\ CanExec(dir.mode))
Creatable(path) ==
    /\ Reachable(path)
    /\ IF files[path].exists THEN CanWrite(files[path].mode)
       ELSE path = "cwd" \/ CanWrite(dir.mode)

\* File::create(&file_path)?
File_create(p) ==
    LET path == PathOf(proc[p].flow)
    IN  /\ proc[p].pc = "create"
        /\ \/ /\ Creatable(path)
              /\ files' = [files EXCEPT ![path] = Truncated(files[path])]
              /\ proc' = [proc EXCEPT ![p] = Advance(p, "create")]
              /\ UNCHANGED <<dir, lastWriter>>
           \/ /\ ~Creatable(path)
              /\ Denied(p, IF path = "home" /\ ~dir.exists THEN "ENOENT" ELSE "EACCES")
           \/ Fault(p)

\* file.write_all(encoded.as_bytes())?: write(2) until all of buf is
\* written; an error may come after any part of it has been (the model keeps
\* three of the lengths: one character, half of them, all but one)
ShortLens(buf) == {1, Len(buf) \div 2, Len(buf) - 1}
ShortWrite(p, path) ==
    /\ \E n \in ShortLens(proc[p].buf) :
         files' = [files EXCEPT ![path].content =
                      WriteAt0(@, SubSeq(proc[p].buf, 1, n))]
    /\ proc' = [proc EXCEPT ![p] = Propagate(p, Err("IOError", "fault"))]
    /\ UNCHANGED <<dir, lastWriter>>
write_all_append(p) ==
    LET path == PathOf(proc[p].flow)
    IN  /\ proc[p].pc = "write"
        /\ \/ /\ files' = [files EXCEPT ![path].content = @ \o proc[p].buf]
              /\ proc' = [proc EXCEPT ![p] = Advance(p, "write")]
              /\ lastWriter' = IF path = "home" THEN p ELSE lastWriter
              /\ UNCHANGED dir
           \/ ShortWrite(p, path)
write_all(p) ==
    LET path == PathOf(proc[p].flow)
    IN  /\ proc[p].pc = "write"
        /\ \/ /\ files' = [files EXCEPT ![path].content = WriteAt0(@, proc[p].buf)]
              /\ proc' = [proc EXCEPT ![p] = Advance(p, "write")]
              /\ lastWriter' = IF path = "home" THEN p ELSE lastWriter
              /\ UNCHANGED dir
           \/ ShortWrite(p, path)

\* set_permissions(file_path, FILE_PERMISSIONS)?
set_permissions_file_skipped(p) ==
    /\ proc[p].pc = "chmod_file"
    /\ \/ /\ proc' = [proc EXCEPT ![p] = Advance(p, "chmod_file")]
          /\ UNCHANGED <<dir, files, lastWriter>>
       \/ Fault(p)
set_permissions_file(p) ==
    /\ proc[p].pc = "chmod_file"
    /\ \/ /\ files' = [files EXCEPT !["home"].mode = FILE_PERMISSIONS]
          /\ proc' = [proc EXCEPT ![p] = Advance(p, "chmod_file")]
          /\ UNCHANGED <<dir, lastWriter>>
       \/ Fault(p)

Openable(path) ==
    Reachable(path) /\ files[path].exists /\ CanRead(files[path].mode)

\* ENOENT for a missing directory or file, EACCES for a missing permission
OpenError(path) ==
    IF path = "home" /\ ~dir.exists THEN "ENOENT"
    ELSE IF ~Reachable(path) THEN "EACCES"
    ELSE IF ~files[path].exists THEN "ENOENT"
    ELSE "EACCES"

\* File::open(file_path)?
File_open_or_create(p) ==
    LET path == PathOf(proc[p].flow)
    IN  /\ proc[p].pc = "open"
        /\ \/ /\ Openable(path)
              /\ proc' = [proc EXCEPT ![p] = Advance(p, "open")]
              /\ UNCHANGED <<dir, files, lastWriter>>
           \/ /\ ~Openable(path)
              /\ Reachable(path) /\ ~files[path].exists
              /\ files' = [files EXCEPT ![path] = Truncated(files[path])]
              /\ proc' = [proc EXCEPT ![p] = Advance(p, "open")]
              /\ UNCHANGED <<dir, lastWriter>>
           \/ /\ ~Openable(path)
              /\ ~(Reachable(path) /\ ~files[path].exists)
              /\ Denied(p, OpenError(path))
           \/ Fault(p)
File_open(p) ==
    LET path == PathOf(proc[p].flow)
    IN  /\ proc[p].pc = "open"
        /\ \/ /\ Openable(path)
              /\ proc' = [proc EXCEPT ![p] = Advance(p, "open")]
              /\ UNCHANGED <<dir, files, lastWriter>>
           \/ /\ ~Openable(path)
              /\ Denied(p, OpenError(path))
           \/ Fault(p)

\* the result of decoding what was read: STANDARD.decode(..)?,
\* Keypair::from_protobuf_encoding(..)?, Ok(PeerId::from(keypair.public()))
PeerIdOfContent(content) ==
    LET encoded_secret == Base64Decode(content)
        decoded == from_protobuf_encoding(encoded_secret.bytes)
    IN  IF ~encoded_secret.ok THEN Err("DecodeError", "base64")
        ELSE IF ~decoded.ok THEN Err("DecodeError", "protobuf")
        ELSE Ok(PeerId_from(decoded.keypair.public))

\* file.read_to_string(..)? and the rest of generate_peer_id
read_to_string(p) ==
    LET path == PathOf(proc[p].flow)
    IN  /\ proc[p].pc = "read"
        /\ \/ /\ proc' = [proc EXCEPT ![p] =
                     [Advance(p, "read") EXCEPT
                         !.result = PeerIdOfContent(files[path].content)]]
              /\ UNCHANGED <<dir, files, lastWriter>>
           \/ Fault(p)

\* the process is killed between two steps
Crash(p) ==
    /\ proc[p].pc \in Running
    /\ proc' = [proc EXCEPT ![p].pc = "crashed"]
    /\ UNCHANGED <<dir, files, lastWriter>>

Step(p) ==
    \/ create_dir_all(p)
    \/ set_permissions_dir(p)
    \/ File_create(p)
    \/ write_all(p)
    \/ set_permissions_file(p)
    \/ File_open(p)
    \/ read_to_string(p)
    \/ Crash(p)

\* ------------------------------------------------------- initial states
ValidRecord == Base64Encode(to_protobuf_encoding(ed25519_from_bytes(Sha3_256(<<>>))))
InitContents == {ValidRecord, <<>>, <<65, 65, 65, 65>>, Base64Encode(<<8, 1>>)}
InitHomeFiles ==
    {AbsentFile} \cup
    {[exists |-> TRUE, mode |-> m, content |-> c] : m \in {420, 256}, c \in InitContents}
InitCwdFiles ==
    {AbsentFile} \cup
    {[exists |-> TRUE, mode |-> m, content |-> c] : m \in {420, 256}, c \in InitContents}
InitDirs == {[exists |-> TRUE, mode |-> m] : m \in {448, 493, 320}}

\* the library's flows, one invocation at a time
Init ==
    /\ \/ /\ dir = NoDir
          /\ files = [path \in Paths |-> AbsentFile]
       \/ /\ dir \in InitDirs
          /\ \E h \in InitHomeFiles : files = [path \in Paths |->
                 IF path = "home" THEN h ELSE AbsentFile]
    /\ proc = [p \in Procs |-> IdleProc]
    /\ lastWriter = 0
First == CHOOSE p \in Procs : \A q \in Procs : p <= q
Next ==
    \E p \in {First} :
        \/ generate_new_keypair_and_peer_id(p)
        \/ generate_peer_id(p)
        \/ Step(p)
Spec == Init /\ [][Next]_vars

\* the binary: main and its own flows on ./keypair.key, one invocation at a time
InitMain ==
    /\ dir = NoDir
    /\ \E c \in InitCwdFiles : files = [path \in Paths |->
           IF path = "home" THEN AbsentFile ELSE c]
    /\ proc = [p \in Procs |-> IdleProc]
    /\ lastWriter = 0
NextMain ==
    \E p \in {First} :
        \/ main(p)
        \/ File_create(p)
        \/ write_all(p)
        \/ File_open(p)
        \/ read_to_string(p)
        \/ Crash(p)
SpecMain == InitMain /\ [][NextMain]_vars

\* two processes run the library's new-identity flow on the same home
\* directory with no coordination
NextConc ==
    \E p \in Procs :
        \/ proc[p].pc = "idle" /\ generate_new_keypair_and_peer_id(p)
        \/ Step(p)
InitConc ==
    /\ \/ /\ dir = NoDir
          /\ files = [path \in Paths |-> AbsentFile]
       \/ /\ dir = [exists |-> TRUE, mode |-> DefaultDirMode]
          /\ \E h \in {AbsentFile,
                        [exists |-> TRUE, mode |-> 420, content |-> ValidRecord],
                        [exists |-> TRUE, mode |-> 256, content |-> ValidRecord],
                        [exists |-> TRUE, mode |-> 420, content |-> <<65, 65, 65, 65>>]} :
                files = [path \in Paths |-> IF path = "home" THEN h ELSE AbsentFile]
    /\ proc = [p \in Procs |-> IdleProc]
    /\ lastWriter = 0
SpecConc == InitConc /\ [][NextConc]_vars

\* ------------------------------------------------------------- claims
Applied(p, step) == \E i \in 1..Len(proc[p].applied) : proc[p].applied[i] = step
Started(p, flow) == proc[p].flow = flow /\ proc[p].pc # "idle"
RecordOf(keypair) == Base64Encode(to_protobuf_encoding(keypair))
IsPrefix(s, t) == Len(s) <= Len(t) /\ s = SubSeq(t, 1, Len(s))
\* the content is exactly one complete record of some keypair
Complete(content) ==
    LET b == Base64Decode(content)
    IN  /\ b.ok
        /\ from_protobuf_encoding(b.bytes).ok
        /\ content = RecordOf(from_protobuf_encoding(b.bytes).keypair)

\* C1: after save_keypair(k) has returned Ok in a process running alone, the
\* key file holds exactly base64(protobuf(k)), and the generate_peer_id that
\* follows returns Ok with the identifier of k's public key (unless the
\* operating system fails the open or the read).
C1_RoundTrip ==
    \A p \in Procs :
        (Started(p, "lib_new") /\ Applied(p, "chmod_file")) =>
            /\ files["home"].exists
            /\ files["home"].content = RecordOf(proc[p].keypair)
            /\ proc[p].pc = "done" =>
                 \/ proc[p].result = Ok(PeerId_from(proc[p].keypair.public))
                 \/ proc[p].result = Err("IOError", "fault")
C1_Witness ==
    \E p \in Procs :
        /\ Started(p, "lib_new") /\ proc[p].pc = "done"
        /\ proc[p].seed_phrase = None
        /\ proc[p].start.file.exists
        /\ proc[p].start.file.content # RecordOf(proc[p].keypair)
        /\ proc[p].result = Ok(PeerId_from(proc[p].keypair.public))

\* C2: whenever save_keypair has returned Ok, the key file exists with mode
\* 0600 and its directory exists with mode 0700, whatever they were before.
C2_ModesAfterSave ==
    \A p \in Procs :
        (Started(p, "lib_new") /\ Applied(p, "chmod_file")) =>
            /\ files["home"].exists /\ files["home"].mode = 384
            /\ dir.exists /\ dir.mode = 448
C2_Witness ==
    \E p \in Procs :
        /\ Started(p, "lib_new") /\ Applied(p, "chmod_file")
        /\ proc[p].start.file.exists /\ proc[p].start.file.mode = 420
        /\ proc[p].start.dir.mode = 493

\* C3: with no home directory both library flows end at once with
\* HomeDirectoryNotFound (not an IO error), return no identifier, apply no
\* step, and leave the directory and the key file as they were.
C3_HomeNotFound ==
    \A p \in Procs :
        ((Started(p, "lib_new") \/ Started(p, "lib_lookup")) /\ ~proc[p].home) =>
            /\ proc[p].pc = "done"
            /\ proc[p].result.kind = "HomeDirectoryNotFound"
            /\ proc[p].result.id = <<>>
            /\ proc[p].applied = <<>>
            /\ dir = proc[p].start.dir
            /\ files["home"] = proc[p].start.file
C3_Witness ==
    \E p \in Procs :
        /\ Started(p, "lib_new") /\ ~proc[p].home
        /\ proc[p].result.kind = "HomeDirectoryNotFound"
        /\ ~dir.exists

\* C4: the lookup flow only reads: in every state of it the directory and
\* the key file are what they were when it started; and with a home directory
\* but no key file it ends with an IO error and no identifier.
C4_LookupReadOnly ==
    \A p \in Procs :
        Started(p, "lib_lookup") =>
            /\ dir = proc[p].start.dir
            /\ files["home"] = proc[p].start.file
            /\ (proc[p].pc = "done" /\ proc[p].home /\ ~proc[p].start.file.exists) =>
                 /\ proc[p].result.kind = "IOError"
                 /\ proc[p].result.cause \in {"ENOENT", "fault"}
                 /\ proc[p].result.id = <<>>
            /\ (proc[p].pc = "done" /\ proc[p].result.kind = "Ok") =>
                 proc[p].result = PeerIdOfContent(proc[p].start.file.content)
C4_Witness ==
    \E p \in Procs :
        /\ Started(p, "lib_lookup") /\ proc[p].pc = "done"
        /\ dir.exists /\ ~files["home"].exists
        /\ proc[p].result = Err("IOError", "ENOENT")

\* C5: a new-identity run with seed phrase ph returns the identifier that ph
\* alone determines, non-empty, the same as the run before it with the same
\* phrase; it fails only when there is no home directory, when the operating
\* system fails a step, or when a key file it may not write was there before
\* (never after an earlier successful run); the seed is absent exactly when
\* no phrase was given.
C5_SeedDeterminism ==
    \A p \in Procs :
        Started(p, "lib_new") =>
            /\ (proc[p].seed = None) <=> (proc[p].seed_phrase = None)
            /\ (proc[p].seed_phrase # None /\ proc[p].pc = "done") =>
                 IF proc[p].result.kind = "Ok"
                 THEN /\ proc[p].result.id =
                            PeerId_from(Ed25519Public(Sha3_256(proc[p].seed_phrase[2])))
                      /\ Len(proc[p].result.id) > 0
                      /\ proc[p].prev.kind = "Ok" => proc[p].prev.id = proc[p].result.id
                 ELSE \/ proc[p].result.kind = "HomeDirectoryNotFound" /\ ~proc[p].home
                      \/ proc[p].result = Err("IOError", "fault")
                      \/ /\ proc[p].result = Err("IOError", "EACCES")
                         /\ proc[p].start.file.exists
                         /\ ~CanWrite(proc[p].start.file.mode)
                         /\ proc[p].prev.kind # "Ok"
C5_Witness ==
    \E p \in Procs :
        /\ Started(p, "lib_new") /\ proc[p].pc = "done"
        /\ proc[p].seed_phrase # None
        /\ proc[p].prev.kind = "Ok" /\ proc[p].result.kind = "Ok"
        /\ proc[p].prev.id = proc[p].result.id

\* C6: an identifier the new-identity flow returns is the identifier of the
\* record now in the key file, read after the save returned Ok; when the
\* save fails, no step of the load runs and no identifier is returned.
C6_ReportsPersisted ==
    \A p \in Procs :
        Started(p, "lib_new") =>
            /\ proc[p].result.kind = "Ok" =>
                 /\ Applied(p, "chmod_file") /\ Applied(p, "read")
                 /\ proc[p].result = PeerIdOfContent(files["home"].content)
            /\ ~Applied(p, "chmod_file") =>
                 /\ proc[p].pc \notin {"open", "read"}
                 /\ ~Applied(p, "open")
                 /\ proc[p].result.kind # "Ok"
C6_Witness ==
    \E p \in Procs :
        /\ Started(p, "lib_new") /\ proc[p].pc = "done"
        /\ proc[p].result.kind = "Ok"
        /\ proc[p].start.file.exists
        /\ Complete(proc[p].start.file.content)
        /\ PeerIdOfContent(proc[p].start.file.content) # proc[p].result

\* C7: the flags select the flow: --new-peer-id alone or with a seed phrase
\* runs the new-identity flow, --read-peer-id alone runs the lookup flow,
\* neither flag is a usage error, both flags are rejected.
C7_Dispatch ==
    \A p \in Procs :
        (proc[p].pc # "idle" /\ proc[p].flow \in {"main_new", "main_lookup", "usage"}) =>
            LET a == proc[p].args
            IN  /\ (a.new_peer_id /\ ~a.read_peer_id) => proc[p].flow = "main_new"
                /\ (a.read_peer_id /\ ~a.new_peer_id) => proc[p].flow = "main_lookup"
                /\ (~a.new_peer_id /\ ~a.read_peer_id) => proc[p].flow = "usage"
                /\ (a.new_peer_id /\ a.read_peer_id) => proc[p].flow = "usage"

\* what a step of save_keypair does to the directory and the key file
EffectOf(fs, step, buf) ==
    CASE step = "mkdir" ->
           [fs EXCEPT !.dir = IF fs.dir.exists THEN fs.dir
                               ELSE [exists |-> TRUE, mode |-> 493]]
      [] step = "chmod_dir" -> [fs EXCEPT !.dir.mode = 448]
      [] step = "create" ->
           [fs EXCEPT !.file = IF fs.file.exists THEN [fs.file EXCEPT !.content = <<>>]
                                ELSE [exists |-> TRUE, mode |-> 420, content |-> <<>>]]
      [] step = "write" -> [fs EXCEPT !.file.content = buf]
      [] step = "chmod_file" -> [fs EXCEPT !.file.mode = 384]
      [] OTHER -> fs
RECURSIVE Replay(_, _, _)
Replay(fs, steps, buf) ==
    IF steps = <<>> THEN fs
    ELSE Replay(EffectOf(fs, Head(steps), buf), Tail(steps), buf)
FlowOrder == <<"mkdir", "chmod_dir", "create", "write", "chmod_file", "open", "read">>

\* C8: save_keypair applies its steps in the order create directory, set
\* directory mode 0700, create/truncate key file, write content, set file mode
\* 0600; wherever it stops (error or crash) the directory and the key file
\* are exactly what that prefix of the steps makes of what was there before,
\* nothing undone (a write_all that fails may have written part of the
\* content).
C8_StepOrder ==
    \A p \in Procs :
        (Started(p, "lib_new") /\ proc[p].home) =>
            LET done == proc[p].applied
                expect == Replay(proc[p].start, done, proc[p].buf)
                failedInWrite == /\ proc[p].pc = "done"
                                 /\ done = SubSeq(FlowOrder, 1, 3)
                                 /\ proc[p].result = Err("IOError", "fault")
            IN  /\ IsPrefix(done, FlowOrder)
                /\ proc[p].pc \in Running => proc[p].pc = FlowOrder[Len(done) + 1]
                /\ dir = expect.dir
                /\ files["home"].exists = expect.file.exists
                /\ files["home"].mode = expect.file.mode
                /\ \/ files["home"].content = expect.file.content
                   \/ /\ failedInWrite
                      /\ IsPrefix(files["home"].content, proc[p].buf)
                      /\ files["home"].content # proc[p].buf
                /\ Applied(p, "create") => dir.mode = 448
                /\ Applied(p, "chmod_file") =>
                     files["home"].content = RecordOf(proc[p].keypair)
C8_Witness ==
    \E p \in Procs :
        /\ Started(p, "lib_new")
        /\ proc[p].pc \in {"done", "crashed"}
        /\ proc[p].applied = <<"mkdir", "chmod_dir">>
        /\ ~proc[p].start.dir.exists
        /\ dir.exists /\ dir.mode = 448
        /\ ~files["home"].exists

\* C9: two processes run the new-identity flow at once on one home directory.
\* Once both have finished and both saves returned Ok, the key file holds one
\* complete record, that of the process whose write came last, with mode
\* 0600; and every identifier a process reports is the identifier of the
\* keypair of one of the two.
C9_LastWriterWins ==
    /\ (\A p \in Procs : /\ Started(p, "lib_new") /\ proc[p].pc = "done"
                         /\ Applied(p, "chmod_file")) =>
            /\ lastWriter \in Procs
            /\ files["home"].exists
            /\ files["home"].content = RecordOf(proc[lastWriter].keypair)
            /\ Complete(files["home"].content)
            /\ files["home"].mode = 384
    /\ \A p \in Procs :
            proc[p].result.kind = "Ok" =>
                \E q \in Procs : /\ Started(q, "lib_new")
                                 /\ proc[p].result.id = PeerId_from(proc[q].keypair.public)
C9_Witness ==
    /\ \A p \in Procs : /\ Started(p, "lib_new") /\ proc[p].pc = "done"
                        /\ Applied(p, "chmod_file")
                        /\ proc[p].result.kind = "Ok"
    /\ \E p \in Procs, q \in Procs :
          /\ p # q /\ lastWriter = q
          /\ proc[p].keypair # proc[q].keypair
          /\ proc[p].result.id = PeerId_from(proc[q].keypair.public)
          /\ Applied(p, "write")

\* C10 as stated: a key file that was absent or held one complete record
\* when a save started holds one complete record in every state in which it
\* exists, also while the save overwrites it and after the save failed
\* part-way; and a key file that exists is never deleted.
C10_AlwaysComplete ==
    \A p \in Procs :
        (Started(p, "lib_new")
            /\ (proc[p].start.file.exists => Complete(proc[p].start.file.content))) =>
            /\ proc[p].start.file.exists => files["home"].exists
            /\ files["home"].exists => Complete(files["home"].content)

\* C10 amended: a key file that exists is never deleted, and once
\* write_all has returned Ok it holds exactly one complete record; between
\* File::create and the end of write_all, and after a save that failed or
\* crashed there, it is empty or holds the first part of the new record.
C10_CompleteOrTruncated ==
    \A p \in Procs :
        (Started(p, "lib_new")
            /\ (proc[p].start.file.exists => Complete(proc[p].start.file.content))) =>
            /\ proc[p].start.file.exists => files["home"].exists
            /\ files["home"].exists =>
                 \/ Complete(files["home"].content)
                 \/ /\ Applied(p, "create") /\ ~Applied(p, "write")
                    /\ IsPrefix(files["home"].content, proc[p].buf)
                    /\ files["home"].content # proc[p].buf
            /\ Applied(p, "write") =>
                 /\ files["home"].exists
                 /\ files["home"].content = RecordOf(proc[p].keypair)
                 /\ Complete(files["home"].content)
C10_Witness ==
    \E p \in Procs :
        /\ Started(p, "lib_new")
        /\ proc[p].pc = "write"
        /\ proc[p].start.file.exists
        /\ Complete(proc[p].start.file.content)
        /\ files["home"].exists /\ files["home"].content = <<>>

\* ------------------------------------------- the binary's own flows
\* main.rs carries its own save_keypair and generate_peer_id on ./keypair.key
\* (no directory, no set_permissions); the same properties, under SpecMain.
Main_LookupReadOnly ==
    \A p \in Procs :
        Started(p, "main_lookup") =>
            /\ files["cwd"] = proc[p].start.file
            /\ (proc[p].pc = "done" /\ ~proc[p].start.file.exists) =>
                 /\ proc[p].result.kind = "IOError"
                 /\ proc[p].result.id = <<>>
Main_ReportsPersisted ==
    \A p \in Procs :
        Started(p, "main_new") =>
            /\ proc[p].result.kind = "Ok" =>
                 /\ Applied(p, "write") /\ Applied(p, "read")
                 /\ proc[p].result = PeerIdOfContent(files["cwd"].content)
                 /\ proc[p].result.id = PeerId_from(proc[p].keypair.public)
            /\ ~Applied(p, "write") => ~Applied(p, "open") /\ proc[p].result.kind # "Ok"
Main_NeverDeleted ==
    \A p \in Procs :
        (proc[p].pc # "idle" /\ proc[p].start.file.exists) => files["cwd"].exists

====
